---- MODULE Spec2Model ----
(***************************************************************************)
(* Model of the document-processing pipeline and its layered result cache  *)
(* (backend/app/services/cache_service.py, file_processor.py and           *)
(* routers/files.py, routers/chats.py).                                    *)
(*                                                                         *)
(* Strings are sequences of one-character strings, so that key formatting, *)
(* substring tests, splitting on '.' and lower-casing are computed the way *)
(* the Python code computes them.  An Optional is <<>> (None) or <<x>>.    *)
(***************************************************************************)
EXTENDS Integers, Sequences, FiniteSets, TLC

VARIABLES
    cache,      \* InMemoryCache._cache: key -> (value, created_at, expire_at)
    now,        \* time.time()
    last,       \* the latest call made through the cache API and what it returned
    shadow,     \* per key, the arguments of the latest API set not yet invalidated
    up,         \* the upload request in flight: its inputs, position and result
    attempts,   \* the calls of process_file_enhanced made for that request
    enabled,    \* DOCLING_AVAILABLE / enhanced_processing_enabled
    tmp,        \* the temporary files on disk (names NamedTemporaryFile handed out)
    reply,      \* the latest response of send_message
    asked,      \* per answer key, the answer computed since the chat's last upload
    lock,       \* InMemoryCache._lock: the thread that holds it, if any
    threads,    \* per thread, the cache call or external call it is inside
    monitor,    \* the latest call of _check_system_resources: readings and result
    database,   \* chats and messages in the database, and the latest process_file_content call
    context,    \* the latest file context send_message built for the reasoning layer
    files,      \* per chat, how many files have been stored as its latest file data
    sm          \* the send_message request that is running between cache check and store

vars == <<cache, now, last, shadow, up, attempts, enabled, tmp, reply, asked, lock, threads,
          monitor, database, context, files, sm>>

apiVars == <<last, shadow>>

uploadVars == <<up, attempts, enabled>>

chatVars == <<reply, asked>>

lockVars == <<lock, threads>>

sideVars == <<monitor, database, context>>

loopVars == <<files, sm>>

coreVars == <<cache, now, apiVars, uploadVars, tmp, chatVars, lockVars, loopVars>>

\* ------------------------------------------------------------------ bounds
\* Largest clock value the model lets time.time() reach.
MaxClock == 3

\* Largest number of entries the model lets the cache hold at once.
MaxEntries == 2

\* Number of temporary-file names the model lets NamedTemporaryFile hand out;
\* one of them always stays free, so that an attempt can always get a name.
MaxTemp == 2

\* ----------------------------------------------------------------- strings
None == <<>>

Some(x) == <<x>>

\* str in str: Python's substring test
Contains(pat, s) ==
    \E i \in 1..(Len(s) - Len(pat) + 1) : SubSeq(s, i, i + Len(pat) - 1) = pat

COLON == <<":">>

FAQ_PREFIX == <<"f", "a", "q">>

PARTIAL_PREFIX == <<"p", "a", "r", "t", "i", "a", "l">>

\* ---------------------------------------------------------- InMemoryCache
\* truthiness of an Optional[float]: None and 0 are falsy
Truthy(opt) == opt # None /\ opt[1] # 0

\* mutant: the expiry time is the ttl itself, not time.time() + ttl
MakeEntry_NoClock(t, value, ttl) ==
    [value |-> value,
     created_at |-> t,
     expire_at |-> IF Truthy(ttl) THEN Some(ttl[1]) ELSE None]

\* the tuple set() stores: (value, time.time(), expire_at)
MakeEntry(t, value, ttl) ==
    [value |-> value,
     created_at |-> t,
     expire_at |-> IF Truthy(ttl) THEN Some(t + ttl[1]) ELSE None]

\* InMemoryCache.set
CacheSet(c, t, key, value, ttl) ==
    [k \in DOMAIN c \cup {key} |-> IF k = key THEN MakeEntry(t, value, ttl) ELSE c[k]]

\* mutant: the comparison of the expiry test is reversed
Expired_Reversed(entry, t) == Truthy(entry.expire_at) /\ t < entry.expire_at[1]

\* the expiry test of get(): expire_at and time.time() > expire_at
Expired(entry, t) == Truthy(entry.expire_at) /\ t > entry.expire_at[1]

\* del self._cache[key]
CacheDel(c, key) == [k \in DOMAIN c \ {key} |-> c[k]]

\* InMemoryCache.get: the value it returns
CacheGetRet(c, t, key) ==
    IF key \notin DOMAIN c THEN None
    ELSE IF Expired(c[key], t) THEN None
    ELSE Some(c[key].value)

\* InMemoryCache.get: the map it leaves behind (lazy eviction)
CacheGetMap(c, t, key) ==
    IF key \in DOMAIN c /\ Expired(c[key], t) THEN CacheDel(c, key) ELSE c

\* InMemoryCache.invalidate
CacheInvalidate(c, key) == IF key \in DOMAIN c THEN CacheDel(c, key) ELSE c

\* InMemoryCache.clear
CacheClear(c) == [k \in {} |-> None]

\* InMemoryCache.keys
CacheKeys(c) == DOMAIN c

\* QueryCache.make_key
QueryMakeKey(chat_id, query_hash) == FAQ_PREFIX \o COLON \o chat_id \o COLON \o query_hash

\* mutant: the partial-result wrapper formats its keys with the answer prefix
PartialMakeKey_FaqPrefix(file_id, result_type) ==
    FAQ_PREFIX \o COLON \o file_id \o COLON \o result_type

\* PartialResultCache.make_key
PartialMakeKey(file_id, result_type) ==
    PARTIAL_PREFIX \o COLON \o file_id \o COLON \o result_type

MakeKey(dom, a, b) == IF dom = "faq" THEN QueryMakeKey(a, b) ELSE PartialMakeKey(a, b)

\* ------------------------------------------------- inputs of the cache API
\* id strings of the timing specification
TimedIds == { <<"a">> }

\* id strings of the key specification; ':' is a legal character of an id
ColonIds == { <<"a">>, <<"a", ":", "a">> }

ApiValues == { "v1", "v2" }

ApiTtls == { None, Some(0), Some(1), Some(2) }

NoTtl == { None }

EmptyMap == [k \in {} |-> None]

\* the observable outcome of a cache call: what it returned, whether it evicted
Call(op, dom, a, b, ret, evicted) ==
    [op |-> op, dom |-> dom, a |-> a, b |-> b, ret |-> ret, evicted |-> evicted]

NoCall == Call("none", "none", None, None, None, FALSE)

\* what the last set on a key asked for, until an invalidate or clear touches it
ShadowSet(sh, t, key, value, ttl) ==
    [k \in DOMAIN sh \cup {key} |->
        IF k = key THEN [value |-> value, at |-> t, ttl |-> ttl] ELSE sh[k]]

ShadowDrop(sh, key) == [k \in DOMAIN sh \ {key} |-> sh[k]]

\* QueryCache.set / PartialResultCache.set
WrapperSet(dom, a, b, value, ttl) ==
    LET key == MakeKey(dom, a, b) IN
    /\ Cardinality(DOMAIN cache \cup {key}) <= MaxEntries
    /\ cache' = CacheSet(cache, now, key, value, ttl)
    /\ shadow' = ShadowSet(shadow, now, key, value, ttl)
    /\ last' = Call("set", dom, a, b, None, FALSE)
    /\ UNCHANGED <<now, uploadVars, tmp, chatVars, lockVars, sideVars, loopVars>>

\* QueryCache.get / PartialResultCache.get
WrapperGet(dom, a, b) ==
    LET key == MakeKey(dom, a, b) IN
    /\ cache' = CacheGetMap(cache, now, key)
    /\ last' = Call("get", dom, a, b, CacheGetRet(cache, now, key),
                     CacheGetMap(cache, now, key) # cache)
    /\ UNCHANGED <<now, shadow, uploadVars, tmp, chatVars, lockVars, sideVars, loopVars>>

\* QueryCache.invalidate / PartialResultCache.invalidate
WrapperInvalidate(dom, a, b) ==
    LET key == MakeKey(dom, a, b) IN
    /\ cache' = CacheInvalidate(cache, key)
    /\ shadow' = ShadowDrop(shadow, key)
    /\ last' = Call("invalidate", dom, a, b, None, FALSE)
    /\ UNCHANGED <<now, uploadVars, tmp, chatVars, lockVars, sideVars, loopVars>>

QuerySet(ids, ttls) ==
    \E a \in ids, b \in ids, v \in ApiValues, ttl \in ttls :
        WrapperSet("faq", a, b, v, ttl)

QueryGet(ids) == \E a \in ids, b \in ids : WrapperGet("faq", a, b)

QueryInvalidate(ids) == \E a \in ids, b \in ids : WrapperInvalidate("faq", a, b)

PartialSet(ids, ttls) ==
    \E a \in ids, b \in ids, v \in ApiValues, ttl \in ttls :
        WrapperSet("partial", a, b, v, ttl)

PartialGet(ids) == \E a \in ids, b \in ids : WrapperGet("partial", a, b)

PartialInvalidate(ids) == \E a \in ids, b \in ids : WrapperInvalidate("partial", a, b)

\* InMemoryCache.clear
Clear ==
    /\ cache' = CacheClear(cache)
    /\ shadow' = EmptyMap
    /\ last' = Call("clear", "none", None, None, None, FALSE)
    /\ UNCHANGED <<now, uploadVars, tmp, chatVars, lockVars, sideVars, loopVars>>

\* InMemoryCache.keys
Keys ==
    /\ last' = Call("keys", "none", None, None, CacheKeys(cache), FALSE)
    /\ UNCHANGED <<cache, now, shadow, uploadVars, tmp, chatVars, lockVars, sideVars, loopVars>>

\* time.time() advances; nothing else runs (there is no background sweep)
Tick ==
    /\ now < MaxClock
    /\ now' = now + 1
    /\ last' = NoCall
    /\ UNCHANGED <<cache, shadow, uploadVars, tmp, chatVars, lockVars, sideVars, loopVars>>

\* ======================================================== upload pipeline
\* ----------------------------------------------------------- more strings
DOT == "."

\* str.lower() on the characters the model's file names use
LowerChar(ch) ==
    CASE ch = "P" -> "p"
      [] ch = "D" -> "d"
      [] ch = "F" -> "f"
      [] OTHER -> ch

Lower(s) == [i \in 1..Len(s) |-> LowerChar(s[i])]

\* position of the last '.' of s, 0 when there is none
LastDot(s) ==
    IF \E i \in 1..Len(s) : s[i] = DOT
    THEN CHOOSE i \in 1..Len(s) : s[i] = DOT /\ \A j \in (i + 1)..Len(s) : s[j] # DOT
    ELSE 0

\* filename.split('.')[-1]
LastSegment(s) == SubSeq(s, LastDot(s) + 1, Len(s))

\* mutant: the extension is compared without lower-casing it
FileExt_NoLower(filename) == IF filename = <<>> THEN <<>> ELSE LastSegment(filename)

\* file.filename.split('.')[-1].lower() if file.filename else ''
FileExt(filename) == IF filename = <<>> THEN <<>> ELSE Lower(LastSegment(filename))

PDF == <<"p", "d", "f">>

OCR == <<"o", "c", "r">>

\* enhanced_formats of _should_use_enhanced_processing
EnhancedFormats ==
    { <<"p", "d", "f">>,
      <<"d", "o", "c", "x">>,
      <<"p", "p", "t", "x">>,
      <<"x", "l", "s", "x">>,
      <<"p", "n", "g">>,
      <<"j", "p", "g">>,
      <<"j", "p", "e", "g">>,
      <<"t", "i", "f", "f">>,
      <<"t", "i", "f">>,
      <<"b", "m", "p">>,
      <<"w", "e", "b", "p">>,
      <<"h", "t", "m", "l">>,
      <<"h", "t", "m">> }

\* SUPPORTED_FILE_TYPES of the upload router
SupportedFileTypes ==
    { <<"c", "s", "v">>,
      <<"j", "s", "o", "n">>,
      <<"x", "l", "s", "x">>,
      <<"x", "l", "s">>,
      <<"p", "d", "f">>,
      <<"d", "o", "c", "x">>,
      <<"d", "o", "c">>,
      <<"t", "x", "t">>,
      <<"m", "d">>,
      <<"r", "t", "f">>,
      <<"o", "d", "t">>,
      <<"j", "p", "g">>,
      <<"j", "p", "e", "g">>,
      <<"p", "n", "g">>,
      <<"g", "i", "f">>,
      <<"b", "m", "p">>,
      <<"t", "i", "f", "f">>,
      <<"w", "e", "b", "p">>,
      <<"h", "t", "m", "l">>,
      <<"x", "m", "l">>,
      <<"y", "a", "m", "l">>,
      <<"y", "m", "l">> }

\* extensions of the analysis_type short cut of upload_file
TabularTypes == { <<"c", "s", "v">>,
                  <<"j", "s", "o", "n">>,
                  <<"x", "l", "s", "x">>,
                  <<"x", "l", "s">> }

\* extensions of the image branch of basic processing
ImageTypes ==
    { <<"j", "p", "g">>,
      <<"j", "p", "e", "g">>,
      <<"p", "n", "g">>,
      <<"g", "i", "f">>,
      <<"b", "m", "p">>,
      <<"t", "i", "f", "f">>,
      <<"w", "e", "b", "p">> }

\* extensions of the json, csv, excel and text branches of basic processing
ParsedTypes ==
    { <<"j", "s", "o", "n">>,
      <<"c", "s", "v">>,
      <<"x", "l", "s", "x">>,
      <<"x", "l", "s">>,
      <<"t", "x", "t">>,
      <<"m", "d">>,
      <<"r", "t", "f">>,
      <<"h", "t", "m", "l">>,
      <<"x", "m", "l">>,
      <<"y", "a", "m", "l">>,
      <<"y", "m", "l">> }

\* extensions of the document branch of basic processing
DocumentTypes == { <<"p", "d", "f">>,
                   <<"d", "o", "c", "x">>,
                   <<"d", "o", "c">>,
                   <<"o", "d", "t">> }

\* --------------------------------------------------------- extracted text
WHITESPACE == { " ", "\n" }

\* "M" stands for the phrase 'This appears to be a scanned PDF', "R" for the
\* rest of the canned sentence the fallback substitutes for blank output
SCANNED_MARKER == <<"M">>

SCANNED_NOTE == <<"M", "R">>

RECURSIVE LStrip(_)
LStrip(s) == IF s # <<>> /\ Head(s) \in WHITESPACE THEN LStrip(Tail(s)) ELSE s

RECURSIVE RStrip(_)
RStrip(s) ==
    IF s # <<>> /\ s[Len(s)] \in WHITESPACE THEN RStrip(SubSeq(s, 1, Len(s) - 1)) ELSE s

\* str.strip()
Strip(s) == RStrip(LStrip(s))

\* str.startswith
StartsWith(s, prefix) == Len(s) >= Len(prefix) /\ SubSeq(s, 1, Len(prefix)) = prefix

\* text_content += page.extract_text() + "\n", over all pages
RECURSIVE JoinPages(_)
JoinPages(pages) ==
    IF pages = <<>> THEN <<>> ELSE (Head(pages) \o <<"\n">>) \o JoinPages(Tail(pages))

\* text_content of _fallback_pdf_processing
FallbackText(pages) ==
    IF Strip(JoinPages(pages)) = <<>> THEN SCANNED_NOTE ELSE JoinPages(pages)

\* ---------------------------------------------------------------- inputs
\* names of uploaded files
FileNames ==
    { <<"a", ".", "p", "d", "f">>,
      <<"a", ".", "p", "d", "f", ":", "b", ".", "P", "D", "F">>,
      <<"a", ".", "p", "n", "g">>,
      <<"a", ".", "c", "s", "v">>,
      <<"a", ".", "x", "y", "z">> }

\* uploaded bytes: whether a PDF reader / format parser accepts them, the
\* text a page-by-page PDF reader extracts from each page, and, read as CSV,
\* the lines (a line is its fields, <<>> a blank line) with the number of data
\* rows the file holds
Body(id, readable, pages, lines, data_rows) ==
    [id |-> id, readable |-> readable, pages |-> pages, lines |-> lines,
     data_rows |-> data_rows]

Bodies ==
    { Body("d_text",    TRUE,  << <<"x">> >>,      << <<"c">>, <<"1">> >>, 1),
      Body("d_blank",   TRUE,  << <<" ">> >>,      << <<"c">> >>, 0),
      Body("d_marker",  TRUE,  << <<"M", "x">> >>, << <<"c">> >>, 0),
      Body("d_corrupt", FALSE, <<>>,               <<>>, 0) }

\* a table of three data rows with a blank line between them
TableBody ==
    Body("d_table", TRUE, << <<"x">> >>,
         << <<"c">>, <<"1">>, <<>>, <<"2">>, <<"3">> >>, 3)

NoBody == Body("none", FALSE, <<>>, <<>>, 0)

CSV == <<"c", "s", "v">>

\* bytes uploaded under a name: any for a PDF, parseable or not for the rest
BodiesFor(filename) ==
    IF FileExt(filename) = PDF THEN Bodies
    ELSE IF FileExt(filename) = CSV
    THEN { b \in Bodies : b.id \in {"d_text", "d_corrupt"} } \cup { TableBody }
    ELSE { b \in Bodies : b.id \in {"d_text", "d_corrupt"} }

\* str(chat.id): chat ids are generated identifiers without ':'
ChatIds == { <<"1">>, <<"1", "1">> }

\* sha256(...).hexdigest() of the normalised question
QueryHashes == { <<"0", "c">>, <<"f", "a">> }

Answers == { "answer" }

\* the ocr_language form field, split at ','
OcrLanguageInputs == { None, Some(<<"fra">>), Some(<<"string">>) }

\* how an engine invocation ends, the resource check included
EngineOutcomes == { "ok", "error", "resources" }

PARTIAL_TTL == 3600

FAQ_TTL == 600

\* ------------------------------------------------------- process_file parts
\* ProcessingResult of process_file_enhanced
Result(success, content, error_message, enhanced_processing) ==
    [success |-> success, content |-> content, error_message |-> error_message,
     enhanced_processing |-> enhanced_processing]

Content(method, text, src) ==
    [method |-> method, text |-> text, src |-> src, records |-> <<>>]

NoContent == Content("none", <<>>, "none")

\* what process_file hands to its caller: a returned dict or a raised exception
Returned(content, enhanced_processing, docling_error) ==
    [kind |-> "return", success |-> TRUE, content |-> content,
     enhanced_processing |-> enhanced_processing, error |-> docling_error,
     rows |-> None]

Raised(error) ==
    [kind |-> "raise", success |-> FALSE, content |-> NoContent,
     enhanced_processing |-> FALSE, error |-> error, rows |-> None]

NoReturn ==
    [kind |-> "none", success |-> FALSE, content |-> NoContent,
     enhanced_processing |-> FALSE, error |-> "none", rows |-> None]

\* mutant: the PDF rule compares the extension without lower-casing it
ForcedOcr_CaseSensitive(filename, force_ocr) ==
    IF FileExt_NoLower(filename) = PDF THEN TRUE ELSE force_ocr

\* process_file: force_ocr after "Force OCR for PDFs"
ForcedOcr(filename, force_ocr) == IF FileExt(filename) = PDF THEN TRUE ELSE force_ocr

\* _should_use_enhanced_processing
ShouldUseEnhanced(is_enabled, filename, force_ocr) ==
    IF ~is_enabled THEN FALSE
    ELSE IF force_ocr THEN TRUE
    ELSE FileExt(filename) \in EnhancedFormats

\* upload_file: ocr_language_list
ParseOcrLanguage(field) ==
    IF field # None /\ field[1] # <<"string">>
    THEN LET langs == SelectSeq(field[1], LAMBDA l : l # "")
         IN IF langs = <<>> \/ \E i \in 1..Len(langs) : langs[i] = "string"
            THEN <<"eng">> ELSE langs
    ELSE <<"eng">>

\* ocr_language or ['en']
LangOrDefault(lang) == IF lang = None \/ lang[1] = <<>> THEN Some(<<"en">>) ELSE lang

\* how a call of process_file_enhanced can go beyond EngineOutcomes: the read
\* of the upload or the write of the temporary file raises, or
\* converter.convert never returns
FaultOutcomes == { "io_error", "hang" }

AttemptOutcomes == EngineOutcomes \cup FaultOutcomes

\* names tempfile.NamedTemporaryFile can hand out
TempPaths == 1..MaxTemp

\* NamedTemporaryFile(delete=False): the file is on disk from here on
CreateTemp(disk, path) == disk \cup {path}

\* os.unlink(temp_file_path)
Unlink(disk, path) == disk \ {path}

\* mutant: the cached result is never used
CacheHit_Never(cached) == FALSE

\* process_file_enhanced: if cached_ocr
CacheHit(cached) == cached # None

\* process_file_enhanced: the result it returns, the cache and the temporary
\* files it leaves, and whether it read the stream it was given (file.read()
\* into the temporary file); returns = FALSE when the call is still inside
\* the engine
ProcessFileEnhanced(c, t, is_enabled, filename, body, force_ocr, lang, outcome, disk, path) ==
    LET key == PartialMakeKey(filename, OCR)
        cached == CacheGetRet(c, t, key)
        c1 == CacheGetMap(c, t, key)
        good == Result(TRUE, Content("docling_ocr", <<"D">>, body.id), "none", TRUE)
        failed(error) == Result(FALSE, NoContent, error, TRUE)
    IN  IF CacheHit(cached)
        THEN [result |-> cached[1], cache |-> c1, engine |-> FALSE, hit |-> TRUE,
              disk |-> disk, returns |-> TRUE,
              read |-> FALSE]
        ELSE IF ~is_enabled
        THEN [result |-> Result(FALSE, NoContent, "not_available", FALSE),
              cache |-> c1, engine |-> FALSE, hit |-> FALSE,
              disk |-> disk, returns |-> TRUE,
              read |-> FALSE]
        ELSE IF outcome = "resources"
        THEN [result |-> failed("insufficient_resources"),
              cache |-> c1, engine |-> FALSE, hit |-> FALSE,
              disk |-> disk, returns |-> TRUE,
              read |-> FALSE]
        ELSE IF outcome = "io_error"
        THEN [result |-> failed("enhanced_processing_error"),
              cache |-> c1, engine |-> FALSE, hit |-> FALSE,
              disk |-> CreateTemp(disk, path), returns |-> TRUE,
              read |-> TRUE]
        ELSE IF outcome = "hang"
        THEN [result |-> failed("none"),
              cache |-> c1, engine |-> TRUE, hit |-> FALSE,
              disk |-> CreateTemp(disk, path), returns |-> FALSE,
              read |-> TRUE]
        ELSE IF outcome = "error"
        THEN [result |-> failed("enhanced_processing_error"),
              cache |-> c1, engine |-> TRUE, hit |-> FALSE,
              disk |-> Unlink(CreateTemp(disk, path), path), returns |-> TRUE,
              read |-> TRUE]
        ELSE [result |-> good,
              cache |-> CacheSet(c1, t, key, good, Some(PARTIAL_TTL)),
              engine |-> TRUE, hit |-> FALSE,
              disk |-> Unlink(CreateTemp(disk, path), path), returns |-> TRUE,
              read |-> TRUE]

\* one call of process_file_enhanced as the caller sees it
Attempt(site, force_ocr, lang, r) ==
    [site |-> site, force_ocr |-> force_ocr, lang |-> lang,
     success |-> r.result.success, engine |-> r.engine, hit |-> r.hit,
     error |-> r.result.error_message]

\* _fallback_pdf_processing: the dict it returns
FallbackResult(body) ==
    Returned(Content("pypdf2_fallback", FallbackText(body.pages), body.id), FALSE, "none")

\* mutant: the second chance is taken without looking at the fallback text
LooksScanned_Always(is_enabled, fallback_text) == is_enabled

\* process_file: the test that sends a fallback result to the second chance
LooksScanned(is_enabled, fallback_text) ==
    StartsWith(Strip(fallback_text), SCANNED_MARKER) /\ is_enabled

\* upload_file: for key in keys(): if pattern in key: invalidate(key)
InvalidateMatching(c, pattern) ==
    [k \in {x \in CacheKeys(c) : ~Contains(pattern, x)} |-> c[k]]

\* mutant: the pattern lacks the ':' that ends the chat id
FaqPattern_NoColon(chat_id) == FAQ_PREFIX \o COLON \o chat_id

\* f"faq:{target_chat_id}:"
FaqPattern(chat_id) == FAQ_PREFIX \o COLON \o chat_id \o COLON

\* f"partial:{file.filename}:"
PartialPattern(filename) == PARTIAL_PREFIX \o COLON \o filename \o COLON

\* upload_file: the cache after both invalidation loops
UploadInvalidation(c, chat_id, filename) ==
    InvalidateMatching(InvalidateMatching(c, FaqPattern(chat_id)), PartialPattern(filename))

\* ------------------------------------------------------------ upload_file
Idle ==
    [pc |-> "idle", filename |-> <<>>, force_ocr |-> FALSE, force_eff |-> FALSE,
     lang |-> None, chat |-> <<>>, body |-> NoBody, fallback |-> NoReturn,
     result |-> NoReturn, http |-> "none", invalidated |-> {}, reads |-> 0,
     seeks |-> 0]

\* upload_file up to the call of process_file: size and extension checks, the
\* chat the file is attached to, the language list, the analysis short cut
UploadRequest(names, fields, chats) ==
    /\ up.pc = "idle"
    /\ \E filename \in names, force_ocr \in BOOLEAN, field \in fields,
          chat \in chats, analysis \in BOOLEAN, too_big \in BOOLEAN :
        \E body \in BodiesFor(filename) :
            LET req == [Idle EXCEPT !.filename = filename, !.force_ocr = force_ocr,
                                    !.lang = Some(ParseOcrLanguage(field)),
                                    !.chat = chat, !.body = body]
            IN  up' = IF too_big
                      THEN [req EXCEPT !.pc = "done", !.http = "413"]
                      ELSE IF FileExt(filename) \notin SupportedFileTypes
                      THEN [req EXCEPT !.pc = "done", !.http = "415"]
                      ELSE IF analysis /\ FileExt(filename) \in TabularTypes
                      THEN [req EXCEPT !.pc = "store",
                                       !.result = Returned(Content("analysis", <<>>, body.id),
                                                           FALSE, "none")]
                      ELSE [req EXCEPT !.pc = "route"]
    /\ attempts' = <<>>
    /\ UNCHANGED <<cache, now, apiVars, tmp, chatVars, lockVars, enabled, sideVars, loopVars>>

\* an upload of any of the modelled files to any of the modelled chats
UploadStart == UploadRequest(FileNames, OcrLanguageInputs, ChatIds)

\* process_file: read the stream into content, force OCR for PDFs, choose the
\* path
ProcessFileRoute ==
    /\ up.pc = "route"
    /\ LET force == ForcedOcr(up.filename, up.force_ocr)
       IN  up' = [up EXCEPT !.force_eff = force, !.reads = 1,
                            !.pc = IF ShouldUseEnhanced(enabled, up.filename, force)
                                   THEN "enhanced" ELSE "basic"]
    /\ UNCHANGED <<cache, now, apiVars, tmp, chatVars, lockVars, attempts, enabled, sideVars, loopVars>>

\* await file.seek(0) before a call of process_file_enhanced, and the
\* file.read() inside that call
Streamed(request, r) ==
    [request EXCEPT !.seeks = @ + 1, !.reads = IF r.read THEN @ + 1 ELSE @]

\* mutant: the retry is issued whatever the first attempt reported
RetryWanted_Always(result) == TRUE

\* process_file: if not enhanced_result.success
RetryWanted(result) == ~result.success

\* process_file: the first enhanced attempt
EnhancedInitial(outcomes) ==
    /\ up.pc = "enhanced"
    /\ \E outcome \in outcomes, path \in TempPaths \ tmp :
        LET r == ProcessFileEnhanced(cache, now, enabled, up.filename, up.body,
                                     up.force_eff, up.lang, outcome, tmp, path)
        IN  /\ (r.disk # tmp) => (Cardinality(r.disk) < MaxTemp)
            /\ cache' = r.cache
            /\ tmp' = r.disk
            /\ IF ~r.returns
               THEN /\ up' = [Streamed(up, r) EXCEPT !.pc = "converting"]
                    /\ UNCHANGED attempts
               ELSE /\ attempts' = Append(attempts,
                                          Attempt("initial", up.force_eff, up.lang, r))
                    /\ up' = IF RetryWanted(r.result)
                             THEN [Streamed(up, r) EXCEPT !.pc = "retry"]
                             ELSE [Streamed(up, r) EXCEPT !.pc = "store",
                                             !.result = Returned(r.result.content, TRUE,
                                                                 "none")]
    /\ UNCHANGED <<now, apiVars, chatVars, lockVars, enabled, sideVars, loopVars>>

\* mutant: a failed retry is followed by another retry
AfterRetry_Again(filename) == "retry"

\* process_file: where a failed retry leads, the PDF fallback or basic
\* processing
AfterRetry(filename) == IF FileExt(filename) = PDF THEN "fallback" ELSE "basic"

\* process_file: the retry, then the choice between return, PDF fallback and
\* basic processing
EnhancedRetry(outcomes) ==
    /\ up.pc = "retry"
    /\ \E outcome \in outcomes, path \in TempPaths \ tmp :
        LET r == ProcessFileEnhanced(cache, now, enabled, up.filename, up.body,
                                     TRUE, LangOrDefault(up.lang), outcome, tmp, path)
        IN  /\ (r.disk # tmp) => (Cardinality(r.disk) < MaxTemp)
            /\ cache' = r.cache
            /\ tmp' = r.disk
            /\ IF ~r.returns
               THEN /\ up' = [Streamed(up, r) EXCEPT !.pc = "converting"]
                    /\ UNCHANGED attempts
               ELSE /\ attempts' = Append(attempts,
                                          Attempt("retry", TRUE, LangOrDefault(up.lang), r))
                    /\ up' = IF r.result.success
                             THEN [Streamed(up, r) EXCEPT !.pc = "store",
                                             !.result = Returned(r.result.content, TRUE,
                                                                 "none")]
                             ELSE [Streamed(up, r) EXCEPT !.pc = AfterRetry(up.filename)]
    /\ UNCHANGED <<now, apiVars, chatVars, lockVars, enabled, sideVars, loopVars>>

\* process_file: _fallback_pdf_processing and the scanned-PDF test
PdfFallback ==
    /\ up.pc = "fallback"
    /\ up' = IF ~up.body.readable
             THEN [up EXCEPT !.pc = "basic"]
             ELSE IF LooksScanned(enabled, FallbackResult(up.body).content.text)
             THEN [up EXCEPT !.pc = "second_chance", !.fallback = FallbackResult(up.body)]
             ELSE [up EXCEPT !.pc = "store", !.fallback = FallbackResult(up.body),
                             !.result = FallbackResult(up.body)]
    /\ UNCHANGED <<cache, now, apiVars, tmp, chatVars, lockVars, attempts, enabled, sideVars, loopVars>>

\* process_file: what the second chance hands back, its own result or the
\* fallback result with the error of the failed attempt
SecondChanceReturn(result, fallback) ==
    IF result.success
    THEN Returned(result.content, TRUE, "none")
    ELSE [fallback EXCEPT !.error = result.error_message]

\* process_file: the second-chance attempt for a PDF that looks scanned
SecondChance(outcomes) ==
    /\ up.pc = "second_chance"
    /\ \E outcome \in outcomes, path \in TempPaths \ tmp :
        LET r == ProcessFileEnhanced(cache, now, enabled, up.filename, up.body,
                                     TRUE, Some(<<"eng">>), outcome, tmp, path)
        IN  /\ (r.disk # tmp) => (Cardinality(r.disk) < MaxTemp)
            /\ cache' = r.cache
            /\ tmp' = r.disk
            /\ IF ~r.returns
               THEN /\ up' = [Streamed(up, r) EXCEPT !.pc = "converting"]
                    /\ UNCHANGED attempts
               ELSE /\ attempts' = Append(attempts,
                                          Attempt("second_chance", TRUE, Some(<<"eng">>), r))
                    /\ up' = [Streamed(up, r) EXCEPT !.pc = "store",
                                        !.result = SecondChanceReturn(r.result, up.fallback)]
    /\ UNCHANGED <<now, apiVars, chatVars, lockVars, enabled, sideVars, loopVars>>

\* mutant: the first line is read as data, not as the header
ReadCsv_NoHeader(lines) ==
    LET filled == SelectSeq(lines, LAMBDA l : l # <<>>)
    IN  [columns |-> <<>>, rows |-> filled]

\* pd.read_csv: blank lines are skipped, the first line left is the header
ReadCsv(lines) ==
    LET filled == SelectSeq(lines, LAMBDA l : l # <<>>)
    IN  [columns |-> Head(filled), rows |-> Tail(filled)]

\* df.to_dict(orient='records')
ToRecords(df) ==
    [i \in 1..Len(df.rows) |-> [columns |-> df.columns, values |-> df.rows[i]]]

\* process_file: the csv branch
CsvResult(body) ==
    IF body.readable /\ body.lines # <<>>
    THEN [Returned([Content("basic", <<>>, body.id) EXCEPT
                       !.records = ToRecords(ReadCsv(body.lines))],
                   FALSE, "none")
            EXCEPT !.rows = Some(Len(ReadCsv(body.lines).rows))]
    ELSE Raised("invalid_file")

\* process_file: basic processing, by extension
BasicProcessing ==
    /\ up.pc = "basic"
    /\ LET ext == FileExt(up.filename)
       IN  up' = IF ext = CSV
                 THEN [up EXCEPT !.pc = "store", !.result = CsvResult(up.body)]
                 ELSE IF ext \in ImageTypes
                 THEN IF enabled
                      THEN [up EXCEPT !.pc = "image_ocr"]
                      ELSE [up EXCEPT !.pc = "store",
                                      !.result = Returned(Content("basic_image", <<>>,
                                                                  up.body.id), FALSE, "none")]
                 ELSE IF ext \in ParsedTypes
                 THEN [up EXCEPT !.pc = "store",
                                 !.result = IF up.body.readable
                                            THEN Returned(Content("basic", <<>>, up.body.id),
                                                          FALSE, "none")
                                            ELSE Raised("invalid_file")]
                 ELSE IF ext \in DocumentTypes
                 THEN [up EXCEPT !.pc = "store",
                                 !.result = Returned(Content("basic_document", <<>>,
                                                             up.body.id), FALSE, "none")]
                 ELSE [up EXCEPT !.pc = "store", !.result = Raised("unsupported_file_type")]
    /\ UNCHANGED <<cache, now, apiVars, tmp, chatVars, lockVars, attempts, enabled, sideVars, loopVars>>

\* process_file: the OCR attempt of the image branch, then base64 passthrough
ImageOcr(outcomes) ==
    /\ up.pc = "image_ocr"
    /\ \E outcome \in outcomes, path \in TempPaths \ tmp :
        LET r == ProcessFileEnhanced(cache, now, enabled, up.filename, up.body,
                                     TRUE, None, outcome, tmp, path)
        IN  /\ (r.disk # tmp) => (Cardinality(r.disk) < MaxTemp)
            /\ cache' = r.cache
            /\ tmp' = r.disk
            /\ IF ~r.returns
               THEN /\ up' = [Streamed(up, r) EXCEPT !.pc = "converting"]
                    /\ UNCHANGED attempts
               ELSE /\ attempts' = Append(attempts, Attempt("image", TRUE, None, r))
                    /\ up' = IF r.result.success
                             THEN [Streamed(up, r) EXCEPT !.pc = "store",
                                             !.result = Returned(r.result.content, TRUE,
                                                                 "none")]
                             ELSE [Streamed(up, r) EXCEPT !.pc = "store",
                                             !.result = Returned(Content("basic_image", <<>>,
                                                                         up.body.id),
                                                                 FALSE, "none")]
    /\ UNCHANGED <<now, apiVars, chatVars, lockVars, enabled, sideVars, loopVars>>

\* upload_file after process_file: store the file data and the system message,
\* then invalidate the answer entries of the chat and the partial entries of
\* the file; any exception ends the request with status 500
UploadStored ==
    /\ up.pc = "store"
    /\ \E db \in {"ok", "raise"} :
        IF up.result.kind = "raise" \/ db = "raise"
        THEN /\ Cardinality(DOMAIN cache) <= MaxEntries
             /\ up' = [up EXCEPT !.pc = "done", !.http = "500"]
             /\ UNCHANGED cache
        ELSE /\ cache' = UploadInvalidation(cache, up.chat, up.filename)
             /\ up' = [up EXCEPT !.pc = "done", !.http = "200",
                                 !.invalidated =
                                     DOMAIN cache
                                         \ DOMAIN UploadInvalidation(cache, up.chat, up.filename)]
    /\ UNCHANGED <<now, apiVars, tmp, chatVars, lockVars, attempts, enabled, sideVars>>

\* the end of an upload where the chat's file data is not followed
UploadStore ==
    /\ UploadStored
    /\ UNCHANGED loopVars

\* the response is sent; the next upload can start
UploadFinish ==
    /\ up.pc = "done"
    /\ up' = Idle
    /\ attempts' = <<>>
    /\ UNCHANGED <<cache, now, apiVars, tmp, chatVars, lockVars, enabled, sideVars, loopVars>>

\* ----------------------------------------------------------- send_message
\* questions, spelled with the letters LowerChar knows
Messages == { <<"P", "d", "f">>, <<"p", "d", "f", " ">>, <<"d", "f">> }

\* chat_input.message.strip().lower()
NormaliseQuery(message) == Lower(Strip(message))

\* hashlib.sha256(...).hexdigest(): distinct digests for distinct strings
Sha256Hex(query_str) ==
    IF query_str = <<"p", "d", "f">> THEN <<"0", "c">> ELSE <<"f", "a">>

\* what the reasoning / web-search layer can answer, the empty string included
ReasonedAnswers == Answers \cup { "" }

\* truthiness of a cached answer: if cached_response
AnswerTruthy(cached) == cached # None /\ cached[1] # ""

\* send_message from the cache check to the response: the response and the
\* cache it leaves, given what the reasoning layer would answer
SendMessageHandler(c, t, chat, query_hash, answer) ==
    LET key == QueryMakeKey(chat, query_hash)
        cached == CacheGetRet(c, t, key)
        c1 == CacheGetMap(c, t, key)
    IN  IF AnswerTruthy(cached)
        THEN [cache |-> c1, key |-> key, message |-> cached[1], cached |-> TRUE,
              reasoned |-> FALSE, at |-> t]
        ELSE [cache |-> CacheSet(c1, t, key, answer, Some(FAQ_TTL)), key |-> key,
              message |-> answer, cached |-> FALSE, reasoned |-> TRUE, at |-> t]

NoReply ==
    [key |-> <<>>, message |-> "", cached |-> FALSE, reasoned |-> FALSE, at |-> 0]

\* the response as the client sees it, with whether the reasoning layer ran
Reply(r) ==
    [key |-> r.key, message |-> r.message, cached |-> r.cached,
     reasoned |-> r.reasoned, at |-> r.at]

\* per answer key, the answer the reasoning layer gave last and when
Asked(history, r) ==
    IF r.cached THEN history
    ELSE [k \in DOMAIN history \cup {r.key} |->
            IF k = r.key THEN [answer |-> r.message, at |-> r.at] ELSE history[k]]

\* send_message: answer-cache check, then (on a miss) compute and store
SendMessage ==
    /\ up.pc = "idle"
    /\ \E chat \in ChatIds, query_hash \in QueryHashes, answer \in Answers :
        LET r == SendMessageHandler(cache, now, chat, query_hash, answer)
        IN  /\ Cardinality(DOMAIN r.cache) <= MaxEntries
            /\ cache' = r.cache
    /\ UNCHANGED <<now, apiVars, uploadVars, tmp, chatVars, lockVars, sideVars, loopVars>>

\* send_message for a typed question, with its response and the history of
\* computed answers recorded
SendMessageAsked ==
    /\ up.pc = "idle"
    /\ \E chat \in ChatIds, message \in Messages, answer \in ReasonedAnswers :
        LET r == SendMessageHandler(cache, now, chat,
                                    Sha256Hex(NormaliseQuery(message)), answer)
        IN  /\ Cardinality(DOMAIN r.cache) <= MaxEntries
            /\ cache' = r.cache
            /\ reply' = Reply(r)
            /\ asked' = Asked(asked, r)
    /\ UNCHANGED <<now, apiVars, uploadVars, tmp, lockVars, sideVars, loopVars>>

\* time passes by a given number of seconds
Elapse(seconds) ==
    /\ now <= MaxClock
    /\ now' = now + seconds
    /\ UNCHANGED <<cache, apiVars, uploadVars, tmp, chatVars, lockVars, sideVars, loopVars>>

\* ---------------------------------------------- direct calls of process_file
\* the ocr_language argument of process_file
OcrLanguageArgs == { None, Some(<<"eng">>), Some(<<"fra">>) }

\* file names process_file is called with
CallNames ==
    { <<"a", ".", "p", "d", "f">>,
      <<"a", ".", "p", "n", "g">>,
      <<"a", ".", "c", "s", "v">>,
      <<"a", ".", "x", "y", "z">> }

\* FileProcessor.process_file called for a file, whatever its name
ProcessFileCall(names, langs) ==
    /\ up.pc = "idle"
    /\ \E filename \in names, force_ocr \in BOOLEAN, lang \in langs :
        \E body \in BodiesFor(filename) :
            /\ Cardinality(DOMAIN cache \cup {PartialMakeKey(filename, OCR)}) <= MaxEntries
            /\ up' = [Idle EXCEPT !.filename = filename, !.force_ocr = force_ocr,
                                  !.lang = lang, !.body = body, !.pc = "route"]
    /\ attempts' = <<>>
    /\ UNCHANGED <<cache, now, apiVars, tmp, chatVars, lockVars, enabled, sideVars, loopVars>>

\* process_file hands its result (or its exception) to the caller
ProcessFileReturn ==
    /\ up.pc = "store"
    /\ up' = [up EXCEPT !.pc = "done"]
    /\ UNCHANGED <<cache, now, apiVars, tmp, chatVars, lockVars, attempts, enabled, sideVars, loopVars>>

\* ------------------------------------------- InMemoryCache under threads
\* the threads that call into the cache
LockThreads == { "t1", "t2" }

LockKeys == { <<"k">> }

LockValues == { "old", "new" }

LockTtls == { None, Some(1) }

LockOps == { "set", "get", "invalidate", "clear", "keys" }

\* a thread's position and the locals of the cache method it is inside
Thread(pc, op, key, value, expire_at, item) ==
    [pc |-> pc, op |-> op, key |-> key, value |-> value, expire_at |-> expire_at,
     item |-> item]

IdleThread == Thread("idle", "none", <<>>, "none", None, None)

IdleThreads == [t \in LockThreads |-> IdleThread]

\* mutant: the with statement does not wait for the lock
LockFree_Always(l) == TRUE

\* with self._lock: the lock can be taken when no thread holds it
LockFree(l) == l = None

\* a thread enters a cache method; set computes expire_at before it asks for
\* the lock
LockCall(t) ==
    /\ threads[t].pc = "idle"
    /\ \E op \in LockOps, key \in LockKeys, value \in LockValues, ttl \in LockTtls :
        threads' = [threads EXCEPT ![t] =
                       IF op = "set"
                       THEN Thread("acquire", op, key, value,
                                   MakeEntry(now, value, ttl).expire_at, None)
                       ELSE IF op \in {"get", "invalidate"}
                       THEN Thread("acquire", op, key, "none", None, None)
                       ELSE Thread("acquire", op, <<>>, "none", None, None)]
    /\ UNCHANGED <<cache, now, lock, apiVars, uploadVars, tmp, chatVars, sideVars, loopVars>>

\* with self._lock: __enter__
LockAcquire(t) ==
    /\ threads[t].pc = "acquire"
    /\ LockFree(lock)
    /\ lock' = Some(t)
    /\ threads' = [threads EXCEPT ![t].pc = "locked"]
    /\ UNCHANGED <<cache, now, apiVars, uploadVars, tmp, chatVars, sideVars, loopVars>>

\* set: self._cache[key] = (value, time.time(), expire_at)
LockSetStore(t) ==
    /\ threads[t].pc = "locked"
    /\ threads[t].op = "set"
    /\ cache' = [k \in DOMAIN cache \cup {threads[t].key} |->
                    IF k = threads[t].key
                    THEN [value |-> threads[t].value, created_at |-> now,
                          expire_at |-> threads[t].expire_at]
                    ELSE cache[k]]
    /\ threads' = [threads EXCEPT ![t].pc = "release"]
    /\ UNCHANGED <<now, lock, apiVars, uploadVars, tmp, chatVars, sideVars, loopVars>>

\* get: item = self._cache.get(key); if not item: return None
LockGetRead(t) ==
    /\ threads[t].pc = "locked"
    /\ threads[t].op = "get"
    /\ threads' = [threads EXCEPT ![t] =
                       IF threads[t].key \in DOMAIN cache
                       THEN [@ EXCEPT !.pc = "check", !.item = Some(cache[threads[t].key])]
                       ELSE [@ EXCEPT !.pc = "release"]]
    /\ UNCHANGED <<cache, now, lock, apiVars, uploadVars, tmp, chatVars, sideVars, loopVars>>

\* get: if expire_at and time.time() > expire_at, else return value
LockGetCheck(t) ==
    /\ threads[t].pc = "check"
    /\ threads' = [threads EXCEPT ![t].pc =
                       IF Expired(threads[t].item[1], now) THEN "delete" ELSE "release"]
    /\ UNCHANGED <<cache, now, lock, apiVars, uploadVars, tmp, chatVars, sideVars, loopVars>>

\* get: del self._cache[key]; return None
LockGetDelete(t) ==
    /\ threads[t].pc = "delete"
    /\ cache' = CacheDel(cache, threads[t].key)
    /\ threads' = [threads EXCEPT ![t].pc = "release"]
    /\ UNCHANGED <<now, lock, apiVars, uploadVars, tmp, chatVars, sideVars, loopVars>>

\* invalidate: if key in self._cache: del self._cache[key]
LockInvalidate(t) ==
    /\ threads[t].pc = "locked"
    /\ threads[t].op = "invalidate"
    /\ cache' = CacheInvalidate(cache, threads[t].key)
    /\ threads' = [threads EXCEPT ![t].pc = "release"]
    /\ UNCHANGED <<now, lock, apiVars, uploadVars, tmp, chatVars, sideVars, loopVars>>

\* clear: self._cache.clear()
LockClear(t) ==
    /\ threads[t].pc = "locked"
    /\ threads[t].op = "clear"
    /\ cache' = CacheClear(cache)
    /\ threads' = [threads EXCEPT ![t].pc = "release"]
    /\ UNCHANGED <<now, lock, apiVars, uploadVars, tmp, chatVars, sideVars, loopVars>>

\* keys: return list(self._cache.keys())
LockKeysList(t) ==
    /\ threads[t].pc = "locked"
    /\ threads[t].op = "keys"
    /\ threads' = [threads EXCEPT ![t].pc = "release"]
    /\ UNCHANGED <<cache, now, lock, apiVars, uploadVars, tmp, chatVars, sideVars, loopVars>>

\* with self._lock: __exit__, and the method returns
LockRelease(t) ==
    /\ threads[t].pc = "release"
    /\ lock' = None
    /\ threads' = [threads EXCEPT ![t] = IdleThread]
    /\ UNCHANGED <<cache, now, apiVars, uploadVars, tmp, chatVars, sideVars, loopVars>>

\* a request calls the engine, the summarizer or the reasoning layer
ExternalCall(t) ==
    /\ threads[t].pc = "idle"
    /\ threads' = [threads EXCEPT ![t].pc = "external"]
    /\ UNCHANGED <<cache, now, lock, apiVars, uploadVars, tmp, chatVars, sideVars, loopVars>>

\* that call returns
ExternalReturn(t) ==
    /\ threads[t].pc = "external"
    /\ threads' = [threads EXCEPT ![t].pc = "idle"]
    /\ UNCHANGED <<cache, now, lock, apiVars, uploadVars, tmp, chatVars, sideVars, loopVars>>

\* ------------------------------------------------ _check_system_resources
\* largest memory floor (max_memory_mb) a FileProcessor is configured with
MaxFloorMb == 3

\* bytes in the megabyte of available_mb = memory.available / (1024 * 1024)
MB == 1048576

\* the CPU ceiling in percent
CPU_LIMIT == 90

\* max_memory_mb as given to the constructor
Floors == 1..MaxFloorMb

\* what psutil.virtual_memory().available can be: None when the call raises,
\* else a number of bytes, at and one byte under every whole megabyte
AvailableReadings ==
    { None } \cup
    { Some(k * MB - d) : k \in 1..(MaxFloorMb + 1), d \in {0, 1} } \cup { Some(0) }

\* what psutil.cpu_percent(interval=1) can be: None when the call raises, else
\* a percentage with one decimal, held in tenths of a percent
CpuReadings == { None, Some(0), Some(899), Some(900), Some(901), Some(1000) }

\* mutant: a reading of exactly 90% counts as too high
AboveCpuLimit_Inclusive(cpu_tenths) == cpu_tenths >= CPU_LIMIT * 10

\* cpu_percent > 90
AboveCpuLimit(cpu_tenths) == cpu_tenths > CPU_LIMIT * 10

\* available_mb < self.max_memory_mb, with available_mb the exact quotient
BelowFloor(available, max_memory_mb) == available < max_memory_mb * MB

\* _check_system_resources: the value it returns and whether it came to sample
\* the CPU; an exception of either measurement is caught and answered True
CheckSystemResources(max_memory_mb, available, cpu) ==
    IF available = None
    THEN [ret |-> TRUE, sampled |-> FALSE]
    ELSE IF BelowFloor(available[1], max_memory_mb)
    THEN [ret |-> FALSE, sampled |-> FALSE]
    ELSE IF cpu = None
    THEN [ret |-> TRUE, sampled |-> TRUE]
    ELSE IF AboveCpuLimit(cpu[1])
    THEN [ret |-> FALSE, sampled |-> TRUE]
    ELSE [ret |-> TRUE, sampled |-> TRUE]

\* a call of the resource check: the floor, what the platform would answer,
\* and what the check did
Measurement(max_memory_mb, available, cpu, r) ==
    [called |-> TRUE, max_memory_mb |-> max_memory_mb, available |-> available,
     cpu |-> cpu, ret |-> r.ret, sampled |-> r.sampled]

NoMeasurement ==
    [called |-> FALSE, max_memory_mb |-> 0, available |-> None, cpu |-> None,
     ret |-> TRUE, sampled |-> FALSE]

\* process_file_enhanced asks whether the system has room for the engine
ResourceCheck ==
    /\ \E max_memory_mb \in Floors, available \in AvailableReadings, cpu \in CpuReadings :
        monitor' = Measurement(max_memory_mb, available, cpu,
                               CheckSystemResources(max_memory_mb, available, cpu))
    /\ UNCHANGED <<coreVars, database, context>>

\* ---------------------------------------------------- process_file_content
\* largest number of records in a parsed file
MaxRecords == 6

\* largest number of chats the model lets the database hold
MaxChats == 2

\* records a preview holds at most
PREVIEW_ITEMS == 5

\* parsed file content: a list of records (numbered here) or a dictionary
ListData(n) == [kind |-> "list", items |-> [i \in 1..n |-> i]]

DictData == [kind |-> "dict", items |-> <<>>]

ParsedData == { ListData(n) : n \in 0..MaxRecords } \cup { DictData }

\* isinstance(data, list)
IsList(data) == data.kind = "list"

\* chat_name: f"File Upload ({len(data)} records)" or "File Upload Analysis"
ChatName(data) ==
    IF IsList(data)
    THEN <<"File Upload (", Len(data.items), " records)">>
    ELSE <<"File Upload Analysis">>

\* industry
ChatIndustry(data) == IF IsList(data) THEN "Data Analysis" ELSE "General"

\* content: f"Uploaded file with {len(data)} records" or "Uploaded file data"
ContentLine(data) ==
    IF IsList(data)
    THEN <<"Uploaded file with ", Len(data.items), " records">>
    ELSE <<"Uploaded file data">>

\* mutant: the preview is the whole list
DataPreview_All(data) == data

\* data_preview: data[:min(5, len(data))] of a list, the dictionary itself
DataPreview(data) ==
    IF IsList(data)
    THEN [data EXCEPT !.items =
             SubSeq(data.items, 1,
                    IF Len(data.items) < PREVIEW_ITEMS THEN Len(data.items)
                    ELSE PREVIEW_ITEMS)]
    ELSE data

\* f"File upload processed. {content}."
SystemMessage(data) == <<"File upload processed. ", ContentLine(data), ".">>

\* f"I've uploaded a file with the following data: {str(data_preview)}"
UserMessage(data) ==
    <<"I've uploaded a file with the following data: ", DataPreview(data)>>

EmptyDb ==
    [chats |-> <<>>, messages |-> <<>>, calls |-> <<>>, data |-> DictData,
     ret |-> None, raised |-> FALSE]

\* ChatRepository.create_chat: the row it commits, or None after a rollback
CreateChat(d, accepted, user_id, name, industry) ==
    IF accepted
    THEN [d EXCEPT !.chats = Append(@, [id |-> Len(d.chats) + 1, user_id |-> user_id,
                                        name |-> name, industry |-> industry]),
                   !.calls = Append(@, [op |-> "create_chat", chat_id |-> 0,
                                        role |-> "none", content |-> name,
                                        industry |-> industry,
                                        ret |-> Some(Len(d.chats) + 1)])]
    ELSE [d EXCEPT !.calls = Append(@, [op |-> "create_chat", chat_id |-> 0,
                                        role |-> "none", content |-> name,
                                        industry |-> industry, ret |-> None])]

\* ChatRepository.add_message: the row it commits, or nothing after a rollback
AddMessage(d, accepted, chat_id, role, content) ==
    LET call == [op |-> "add_message", chat_id |-> chat_id, role |-> role,
                 content |-> content, industry |-> "none",
                 ret |-> IF accepted THEN Some(Len(d.messages) + 1) ELSE None]
    IN  IF accepted
        THEN [d EXCEPT !.messages = Append(@, [chat_id |-> chat_id, role |-> role,
                                               content |-> content]),
                       !.calls = Append(@, call)]
        ELSE [d EXCEPT !.calls = Append(@, call)]

\* process_file_content: the database after the call, with the calls it made
\* on the repository and the chat id it returned (it raises when no chat came
\* back from create_chat)
ProcessFileContentResult(d, data, user_id, chat_ok, system_ok, user_ok) ==
    LET d0 == [d EXCEPT !.calls = <<>>, !.data = data, !.ret = None, !.raised = FALSE]
        d1 == CreateChat(d0, chat_ok, user_id, ChatName(data), ChatIndustry(data))
        chat == d1.calls[1].ret
    IN  IF chat = None
        THEN [d1 EXCEPT !.raised = TRUE]
        ELSE LET d2 == AddMessage(d1, system_ok, chat[1], "system", SystemMessage(data))
                 d3 == AddMessage(d2, user_ok, chat[1], "user", UserMessage(data))
             IN  [d3 EXCEPT !.ret = chat]

\* a call of process_file_content, the database accepting or rejecting each
\* of its three writes
ProcessFileContent ==
    /\ Len(database.chats) < MaxChats
    /\ \E data \in ParsedData, chat_ok \in BOOLEAN, system_ok \in BOOLEAN,
          user_ok \in BOOLEAN :
        database' = ProcessFileContentResult(database, data, 1, chat_ok, system_ok, user_ok)
    /\ UNCHANGED <<coreVars, monitor, context>>

\* ------------------------------------------- send_message: the file context
\* max_context_chars
MAX_CONTEXT_CHARS == 2000

\* characters of the file content handed to the summarizer
SUMMARY_INPUT_CHARS == 8000

\* a string by where it comes from and how long it is
Text(kind, len) == [kind |-> kind, len |-> len]

\* lengths of stored file content, around the budget and the summarizer input
ContentLengths == { 0, 1999, 2000, 2001, 8000, 8001 }

\* the shapes of ChatFileData.content: a dict with markdown_content, another
\* dict, anything else
ContentShapes == { "markdown", "dict", "other" }

\* chat_repo.get_latest_file_data(chat_id): None or the stored content
FileDatas ==
    { None } \cup
    { Some([shape |-> shape, len |-> len]) : shape \in ContentShapes, len \in ContentLengths }

\* file_content_str: content['markdown_content'], json.dumps(content) or
\* str(content)
FileContentStr(file_data) ==
    IF file_data.shape = "markdown" THEN Text("markdown", file_data.len)
    ELSE IF file_data.shape = "dict" THEN Text("json", file_data.len)
    ELSE Text("str", file_data.len)

\* s[:n]
Prefix(text, n) == IF text.len <= n THEN text ELSE [text EXCEPT !.len = n]

\* how client.chat.completions.create ends: a completion, a completion with
\* empty content, no choices, or an exception (quota, network, no client)
LlmOutcomes == { "ok", "empty", "no_choices", "quota", "network" }

\* OpenAIService.chat_completion: every exception of the client is caught and
\* answered with an apology text, so the call itself never raises
ChatCompletion(outcome) ==
    IF outcome = "ok" THEN [raised |-> FALSE, text |-> Text("completion", 400)]
    ELSE IF outcome = "empty" THEN [raised |-> FALSE, text |-> Text("completion", 0)]
    ELSE IF outcome = "no_choices" THEN [raised |-> FALSE, text |-> Text("apology", 70)]
    ELSE IF outcome = "quota" THEN [raised |-> FALSE, text |-> Text("fallback_response", 300)]
    ELSE [raised |-> FALSE, text |-> Text("apology", 80)]

\* OpenAIService.summarize_text: the completion, or '[SUMMARY ERROR: ...]'
\* when chat_completion raises
SummarizeText(text, outcome) ==
    IF ChatCompletion(outcome).raised
    THEN Text("summary_error", 20)
    ELSE ChatCompletion(outcome).text

\* summary and not summary.startswith('[SUMMARY ERROR')
SummaryUsable(summary) == summary.len > 0 /\ summary.kind # "summary_error"

NoContext ==
    [built |-> FALSE, file_data |-> None, outcome |-> "none", body |-> Text("none", 0),
     note |-> "none", asked |-> FALSE]

\* send_message: context_data_str from the latest file data: the text between
\* the FILE CONTENT markers, the note appended, and whether the summarizer was
\* asked
BuildContext(file_data, outcome) ==
    IF file_data = None
    THEN [NoContext EXCEPT !.built = TRUE, !.outcome = outcome]
    ELSE LET file_content_str == FileContentStr(file_data[1])
             summary == SummarizeText(Prefix(file_content_str, SUMMARY_INPUT_CHARS), outcome)
         IN  IF file_content_str.len > MAX_CONTEXT_CHARS
             THEN IF SummaryUsable(summary)
                  THEN [built |-> TRUE, file_data |-> file_data, outcome |-> outcome,
                        body |-> summary, note |-> "summarized", asked |-> TRUE]
                  ELSE [built |-> TRUE, file_data |-> file_data, outcome |-> outcome,
                        body |-> Prefix(file_content_str, MAX_CONTEXT_CHARS),
                        note |-> "truncated", asked |-> TRUE]
             ELSE [built |-> TRUE, file_data |-> file_data, outcome |-> outcome,
                   body |-> file_content_str, note |-> "none", asked |-> FALSE]

\* send_message on a cache miss, up to the context it hands to the reasoning
\* layer
ContextBuild ==
    /\ \E file_data \in FileDatas, outcome \in LlmOutcomes :
        context' = BuildContext(file_data, outcome)
    /\ UNCHANGED <<coreVars, monitor, database>>

\* ------------------------------- send_message and upload_file on one event loop
\* largest number of files the model lets a chat receive
MaxAttach == 2

\* per chat: version counts the files stored as its latest file data, purged
\* is the version the chat had when its answers were last invalidated
NoFiles == [chat \in ChatIds |-> [version |-> 0, purged |-> 0]]

NoSend == [pc |-> "idle", chat |-> <<>>, query_hash |-> <<>>, ctx |-> 0]

\* what the reasoning layer answers from the latest file data it is given
AnswerFrom(version) == "answer from file " \o ToString(version)

\* mutant: other handlers run while send_message is between its cache check
\* and its store
LoopIdle_Always(request) == TRUE

\* both handlers are coroutines of one event loop and send_message has no
\* await between its cache check and its store, so nothing else runs while it
\* is in between
LoopIdle(request) == request.pc = "idle"

\* chat_repo.add_file_data then the invalidation loops: the chat's file data
\* after the end of an upload; a response other than 200 means an exception
\* before the invalidation, raised before or after the file data was stored
Attached(f, chat, http, stored) ==
    IF http = "200"
    THEN [f EXCEPT ![chat] = [version |-> IF stored THEN @.version + 1 ELSE @.version,
                              purged |-> IF stored THEN @.version + 1 ELSE @.version]]
    ELSE [f EXCEPT ![chat].version = IF stored THEN @ + 1 ELSE @]

\* upload_file after process_file, the chat's file data followed
UploadAttach ==
    /\ LoopIdle(sm)
    /\ up.pc = "store"
    /\ files[up.chat].version < MaxAttach
    /\ UploadStored
    /\ \E stored \in BOOLEAN : files' = Attached(files, up.chat, up'.http, stored)
    /\ UNCHANGED sm

\* send_message from the cache check to the call of the reasoning layer: a
\* cached answer is returned at once, else the latest file data is read
SendRead(chats) ==
    /\ LoopIdle(sm)
    /\ \E chat \in chats, query_hash \in QueryHashes :
        LET key == QueryMakeKey(chat, query_hash)
        IN  /\ cache' = CacheGetMap(cache, now, key)
            /\ sm' = IF AnswerTruthy(CacheGetRet(cache, now, key))
                     THEN NoSend
                     ELSE [pc |-> "reasoning", chat |-> chat, query_hash |-> query_hash,
                           ctx |-> files[chat].version]
    /\ UNCHANGED <<now, apiVars, uploadVars, tmp, chatVars, lockVars, sideVars, files>>

\* send_message from the answer of the reasoning layer to the response: the
\* answer is stored under the key of the question
SendStore ==
    /\ sm.pc = "reasoning"
    /\ Cardinality(DOMAIN cache \cup {QueryMakeKey(sm.chat, sm.query_hash)}) <= MaxEntries
    /\ cache' = CacheSet(cache, now, QueryMakeKey(sm.chat, sm.query_hash),
                         AnswerFrom(sm.ctx), Some(FAQ_TTL))
    /\ sm' = NoSend
    /\ UNCHANGED <<now, apiVars, uploadVars, tmp, chatVars, lockVars, sideVars, files>>

\* a step of the upload in flight, taken when the event loop is free
UploadStep ==
    /\ LoopIdle(sm)
    /\ \/ UploadRequest({<<"a", ".", "p", "d", "f">>}, {None}, {<<"1">>})
       \/ ProcessFileRoute
       \/ EnhancedInitial(EngineOutcomes)
       \/ EnhancedRetry(EngineOutcomes)
       \/ PdfFallback
       \/ SecondChance(EngineOutcomes)
       \/ BasicProcessing
       \/ UploadFinish


Init ==
    /\ cache = EmptyMap
    /\ now = 1
    /\ last = NoCall
    /\ shadow = EmptyMap
    /\ up = Idle
    /\ attempts = <<>>
    /\ enabled \in BOOLEAN
    /\ tmp = {}
    /\ reply = NoReply
    /\ asked = EmptyMap
    /\ lock = None
    /\ threads = IdleThreads
    /\ monitor = NoMeasurement
    /\ database = EmptyDb
    /\ context = NoContext
    /\ files = NoFiles
    /\ sm = NoSend

Next ==
    \/ UploadStart
    \/ ProcessFileRoute
    \/ EnhancedInitial(EngineOutcomes)
    \/ EnhancedRetry(EngineOutcomes)
    \/ PdfFallback
    \/ SecondChance(EngineOutcomes)
    \/ BasicProcessing
    \/ ImageOcr(EngineOutcomes)
    \/ UploadStore
    \/ UploadFinish
    \/ SendMessage

Spec == Init /\ [][Next]_vars

\* ------------------------------------------- specifications of the cache API
InitCache ==
    /\ cache = EmptyMap
    /\ now = 1
    /\ last = NoCall
    /\ shadow = EmptyMap
    /\ up = Idle
    /\ attempts = <<>>
    /\ enabled = TRUE
    /\ tmp = {}
    /\ reply = NoReply
    /\ asked = EmptyMap
    /\ lock = None
    /\ threads = IdleThreads
    /\ monitor = NoMeasurement
    /\ database = EmptyDb
    /\ context = NoContext
    /\ files = NoFiles
    /\ sm = NoSend

\* the cache API under a running clock
NextCache ==
    \/ QuerySet(TimedIds, ApiTtls)
    \/ QueryGet(TimedIds)
    \/ QueryInvalidate(TimedIds)
    \/ PartialSet(TimedIds, ApiTtls)
    \/ PartialGet(TimedIds)
    \/ PartialInvalidate(TimedIds)
    \/ Clear
    \/ Keys
    \/ Tick

SpecCache == InitCache /\ [][NextCache]_vars

\* the cache API over ids that contain the key separator
NextKeys ==
    \/ QuerySet(ColonIds, NoTtl)
    \/ QueryGet(ColonIds)
    \/ QueryInvalidate(ColonIds)
    \/ PartialSet(ColonIds, NoTtl)
    \/ PartialGet(ColonIds)
    \/ PartialInvalidate(ColonIds)
    \/ Clear
    \/ Keys

SpecKeys == InitCache /\ [][NextKeys]_vars

\* --------------------------------- specifications of process_file on its own
\* process_file called directly for files of every kind
NextProcess ==
    \/ ProcessFileCall(CallNames, OcrLanguageArgs)
    \/ ProcessFileRoute
    \/ EnhancedInitial(EngineOutcomes)
    \/ EnhancedRetry(EngineOutcomes)
    \/ PdfFallback
    \/ SecondChance(EngineOutcomes)
    \/ BasicProcessing
    \/ ImageOcr(EngineOutcomes)
    \/ ProcessFileReturn
    \/ UploadFinish

SpecProcess == Init /\ [][NextProcess]_vars

\* process_file called for a PDF, its attempts subject to every fault, under a
\* clock that also jumps by the lifetime of a partial result
NextAttempts ==
    \/ ProcessFileCall({<<"a", ".", "p", "d", "f">>}, {None})
    \/ ProcessFileRoute
    \/ EnhancedInitial(AttemptOutcomes)
    \/ EnhancedRetry(AttemptOutcomes)
    \/ PdfFallback
    \/ SecondChance(AttemptOutcomes)
    \/ BasicProcessing
    \/ ProcessFileReturn
    \/ UploadFinish
    \/ Elapse(1)
    \/ Elapse(PARTIAL_TTL)

SpecAttempts == Init /\ [][NextAttempts]_vars

\* ------------------------------------- specification of the cache lock
\* threads calling the cache methods statement by statement
NextLock ==
    \/ \E t \in LockThreads : LockCall(t)
    \/ \E t \in LockThreads : LockAcquire(t)
    \/ \E t \in LockThreads : LockSetStore(t)
    \/ \E t \in LockThreads : LockGetRead(t)
    \/ \E t \in LockThreads : LockGetCheck(t)
    \/ \E t \in LockThreads : LockGetDelete(t)
    \/ \E t \in LockThreads : LockInvalidate(t)
    \/ \E t \in LockThreads : LockClear(t)
    \/ \E t \in LockThreads : LockKeysList(t)
    \/ \E t \in LockThreads : LockRelease(t)
    \/ \E t \in LockThreads : ExternalCall(t)
    \/ \E t \in LockThreads : ExternalReturn(t)
    \/ Tick

SpecLock == InitCache /\ [][NextLock]_vars

\* ------------------------------------------------------------ claims C1-C4
LastKey == MakeKey(last.dom, last.a, last.b)

\* the last set on key k carried a positive ttl that has not elapsed yet
Live(k) ==
    /\ k \in DOMAIN shadow
    /\ Truthy(shadow[k].ttl)
    /\ shadow[k].ttl[1] > 0
    /\ now < shadow[k].at + shadow[k].ttl[1]

\* the last set on key k carried a positive ttl and the clock is past its expiry
Dead(k) ==
    /\ k \in DOMAIN shadow
    /\ Truthy(shadow[k].ttl)
    /\ shadow[k].ttl[1] > 0
    /\ now > shadow[k].at + shadow[k].ttl[1]

\* C1: after set(k, v, ttl) with ttl > 0 and no later set/invalidate/clear on k,
\* a get(k) issued before the ttl elapses returns exactly v and leaves the
\* stored map unchanged (so a repeated get returns v again).
C1_GetReturnsStored ==
    \A k \in DOMAIN shadow :
        Live(k) =>
            /\ CacheGetRet(cache, now, k) = Some(shadow[k].value)
            /\ CacheGetMap(cache, now, k) = cache

\* a get was served from an entry set earlier, after time passed, within its ttl
C1_Witness ==
    /\ last.op = "get"
    /\ Live(LastKey)
    /\ now > shadow[LastKey].at
    /\ last.ret = Some(shadow[LastKey].value)

\* C2: once the clock is past the expiry time of the entry set under k, a get(k)
\* returns None and removes the entry; nothing but a get/set/invalidate/clear
\* changes the map (no background sweep), so keys() still lists the expired
\* entry, whose value a get never returns.
C2_ExpiredIsAbsent ==
    /\ [](\A k \in DOMAIN shadow :
            Dead(k) =>
                /\ CacheGetRet(cache, now, k) = None
                /\ k \notin DOMAIN CacheGetMap(cache, now, k))
    /\ [][ /\ (last'.op \in {"none", "keys"}) => (cache' = cache)
           /\ (last'.op = "keys") => (last'.ret = DOMAIN cache)
           /\ (last'.op = "get" /\ Dead(MakeKey(last'.dom, last'.a, last'.b))) =>
                 /\ last'.ret = None
                 /\ MakeKey(last'.dom, last'.a, last'.b) \notin DOMAIN cache' ]_vars

\* a get found an expired entry still in storage, removed it and returned None
C2_Witness ==
    /\ last.op = "get"
    /\ last.evicted
    /\ last.ret = None
    /\ Dead(LastKey)
    /\ LastKey \notin DOMAIN cache

\* what every get of a wrapper would return in map c at time t
AllGets(dom, ids, c, t) ==
    [p \in ids \X ids |-> CacheGetRet(c, t, MakeKey(dom, p[1], p[2]))]

\* C3: a set or invalidate through one wrapper never changes what a get through
\* the other wrapper returns, for any ids, though both share one map.
C3_Namespacing ==
    [][ /\ (last'.dom = "partial" /\ last'.op \in {"set", "invalidate"}) =>
              AllGets("faq", ColonIds, cache', now') = AllGets("faq", ColonIds, cache, now)
        /\ (last'.dom = "faq" /\ last'.op \in {"set", "invalidate"}) =>
              AllGets("partial", ColonIds, cache', now')
                  = AllGets("partial", ColonIds, cache, now) ]_vars

\* partial_result_cache.set(X, Y) ran while query_cache holds an entry for (X, Y)
C3_Witness ==
    /\ last.op = "set"
    /\ last.dom = "partial"
    /\ QueryMakeKey(last.a, last.b) \in DOMAIN cache
    /\ PartialMakeKey(last.a, last.b) \in DOMAIN cache

\* C4: two different id pairs never produce the same key of a wrapper, so a set
\* or invalidate for one pair never overwrites or removes the entry stored for
\* another pair.
C4_KeysInjective ==
    [][ (last'.op \in {"set", "invalidate"}) =>
            \A p \in ColonIds \X ColonIds :
                (/\ p # <<last'.a, last'.b>>
                 /\ MakeKey(last'.dom, p[1], p[2]) \in DOMAIN cache) =>
                    /\ MakeKey(last'.dom, p[1], p[2])
                          # MakeKey(last'.dom, last'.a, last'.b)
                    /\ AllGets(last'.dom, ColonIds, cache', now')[p]
                          = AllGets(last'.dom, ColonIds, cache, now)[p] ]_vars

\* ----------------------------------------------------------- claims C5-C10
\* the step of upload_file that runs the two invalidation loops
InvalidationStep == up.pc = "store" /\ up'.pc = "done" /\ up'.http = "200"

\* C5: the invalidation of an upload of file F removes every partial-result
\* entry of F and leaves every partial-result entry of another file untouched.
C5_InvalidationScoped ==
    [][ InvalidationStep =>
            \A g \in FileNames :
                LET k == PartialMakeKey(g, OCR)
                IN  IF g = up.filename
                    THEN k \notin DOMAIN cache'
                    ELSE (k \in DOMAIN cache) => (k \in DOMAIN cache' /\ cache'[k] = cache[k])
      ]_vars

\* C6: once the invalidation of an upload attached to chat C has run, no answer
\* entry of C is left, for every query hash, and the answer entries of every
\* other chat are what they were.
C6_AnswersOfChatPurged ==
    [][ InvalidationStep =>
            \A c \in ChatIds, h \in QueryHashes :
                LET k == QueryMakeKey(c, h)
                IN  IF c = up.chat
                    THEN k \notin DOMAIN cache'
                    ELSE /\ (k \in DOMAIN cache) = (k \in DOMAIN cache')
                         /\ (k \in DOMAIN cache) => (cache'[k] = cache[k])
      ]_vars

\* an upload purged an answer entry of its chat while another chat keeps one
C6_Witness ==
    /\ up.pc = "done"
    /\ up.http = "200"
    /\ \E h \in QueryHashes : QueryMakeKey(up.chat, h) \in up.invalidated
    /\ \E c \in ChatIds \ {up.chat}, h \in QueryHashes : QueryMakeKey(c, h) \in DOMAIN cache

\* C7: after a successful upload whose own extraction stored the entry
\* (F, 'ocr'), that entry is still in the cache (invalidate, then store).
C7_OwnEntrySurvives ==
    (/\ up.pc = "done"
     /\ up.http = "200"
     /\ \E i \in 1..Len(attempts) : attempts[i].engine /\ attempts[i].success)
        => PartialMakeKey(up.filename, OCR) \in DOMAIN cache

\* C8: process_file has made at most two enhanced attempts (the initial one and
\* one retry) when it moves to the PDF fallback or to basic processing; the
\* retry follows a failed initial attempt only, and no attempt follows a success.
C8_RetryBound ==
    /\ (up.pc \in {"fallback", "basic"}) => (Len(attempts) <= 2)
    /\ Cardinality({i \in 1..Len(attempts) : attempts[i].site \in {"initial", "retry"}}) <= 2
    /\ \A i \in 1..Len(attempts) :
          (attempts[i].site = "retry") =>
              (i = 2 /\ attempts[1].site = "initial" /\ ~attempts[1].success)
    /\ \A i \in 1..Len(attempts) : attempts[i].success => (i = Len(attempts))

\* both attempts failed and process_file turned to the fallback
C8_Witness ==
    /\ up.pc = "fallback"
    /\ Len(attempts) = 2
    /\ attempts[2].site = "retry"
    /\ attempts[1].engine /\ attempts[2].engine

\* C9: for a file whose extension is pdf in any letter case, every enhanced
\* attempt is issued with force_ocr = TRUE, whatever the caller supplied.
C9_PdfForcesOcr ==
    (Lower(LastSegment(up.filename)) = PDF) =>
        \A i \in 1..Len(attempts) : attempts[i].force_ocr

\* an upper-case PDF uploaded without force_ocr went through all three attempts
C9_Witness ==
    /\ Lower(LastSegment(up.filename)) = PDF
    /\ LastSegment(up.filename) # PDF
    /\ ~up.force_ocr
    /\ Len(attempts) = 3
    /\ attempts[3].site = "second_chance"

\* process_file has returned for a PDF whose initial attempt and retry failed
\* and whose page-by-page text is not blank
C10_Case ==
    /\ up.pc = "store"
    /\ Lower(LastSegment(up.filename)) = PDF
    /\ Len(attempts) >= 2
    /\ ~attempts[1].success
    /\ ~attempts[2].success
    /\ up.body.readable
    /\ Strip(JoinPages(up.body.pages)) # <<>>

\* the fallback result is returned as it is, with no further attempt
C10_FallbackReturned ==
    /\ up.result.kind = "return"
    /\ up.result.success
    /\ ~up.result.enhanced_processing
    /\ up.result.content.text = JoinPages(up.body.pages)
    /\ Len(attempts) = 2

\* C10 as claimed: for a PDF whose enhanced attempts fail and whose basic parser
\* extracts non-empty text, process_file returns success with
\* enhanced_processing = FALSE and the parser's text, with no further attempt.
C10_Original == C10_Case => C10_FallbackReturned

\* C10 as amended: the same, for text that does not begin (after trimming) with
\* the scanned-PDF marker.
C10_FallbackCorrect ==
    (C10_Case /\ ~StartsWith(Strip(JoinPages(up.body.pages)), SCANNED_MARKER))
        => C10_FallbackReturned

\* the fallback text of a PDF was returned after two failed attempts
C10_Witness ==
    /\ C10_Case
    /\ ~StartsWith(Strip(JoinPages(up.body.pages)), SCANNED_MARKER)
    /\ up.result.content.method = "pypdf2_fallback"
    /\ attempts[1].engine

\* ----------------------------------------------------------- claims C11-C20
\* process_file has returned for a PDF whose initial attempt and retry failed
\* and whose fallback text begins with the scanned-PDF marker
C11_Case ==
    /\ up.pc = "store"
    /\ Lower(LastSegment(up.filename)) = PDF
    /\ Len(attempts) >= 2
    /\ ~attempts[1].success
    /\ ~attempts[2].success
    /\ up.body.readable
    /\ StartsWith(Strip(FallbackText(up.body.pages)), SCANNED_MARKER)

\* the settings (force_ocr, language list) an attempt was issued with
AttemptSettings(i) == <<attempts[i].force_ocr, attempts[i].lang>>

\* C11: for a PDF whose enhanced attempts fail and whose fallback text begins
\* with the scanned-PDF marker, process_file makes exactly one more enhanced
\* attempt, with settings that differ from those of the attempts before it, and
\* returns that attempt's result if it succeeded and the fallback result
\* otherwise.
C11_SecondChance ==
    C11_Case =>
        /\ Len(attempts) = 3
        /\ attempts[3].site = "second_chance"
        /\ AttemptSettings(3) \notin { AttemptSettings(1), AttemptSettings(2) }
        /\ IF attempts[3].success
           THEN up.result.success /\ up.result.enhanced_processing
           ELSE /\ up.result.success
                /\ ~up.result.enhanced_processing
                /\ up.result.content = FallbackResult(up.body).content

\* every extension some branch of upload_file or process_file accepts
KnownExtensions ==
    SupportedFileTypes \cup EnhancedFormats \cup ImageTypes \cup ParsedTypes
        \cup DocumentTypes

\* C12: for a file whose extension is in none of the supported sets, no attempt
\* invokes the enhanced engine and process_file ends in a failure, whatever
\* force_ocr is and whether or not the engine is available.
C12_UnsupportedFailsFast ==
    (up.pc # "idle" /\ FileExt(up.filename) \notin KnownExtensions) =>
        /\ \A i \in 1..Len(attempts) : ~attempts[i].engine
        /\ (up.pc \in {"store", "done"}) => (up.result.kind = "raise")

\* every attempt of the call was stopped by the resource monitor
C13_Case ==
    /\ attempts # <<>>
    /\ \A i \in 1..Len(attempts) : attempts[i].error = "insufficient_resources"

\* C13: when the resource monitor reports insufficient capacity for a file
\* routed to enhanced processing, the engine is not invoked and process_file
\* ends in failure with the resource-exhaustion error; no basic-processing
\* result is returned in its place.
C13_NoSilentDowngrade ==
    C13_Case =>
        /\ \A i \in 1..Len(attempts) : ~attempts[i].engine
        /\ (up.pc \in {"store", "done"}) =>
              /\ up.result.kind = "raise"
              /\ up.result.error = "insufficient_resources"

\* a call of process_file_enhanced returned in this step
AttemptReturned == Len(attempts') = Len(attempts) + 1

\* C14: when an enhanced attempt returns, on whatever exit path, the temporary
\* file it created is gone and the temporary files of other attempts are still
\* there: the attempt leaves the set of temporary files as it found it.
C14_TempFileCleanedUp ==
    [][ AttemptReturned => (tmp' \subseteq tmp /\ tmp \subseteq tmp') ]_vars

\* process_file takes every step it can take: the event loop keeps running it
SpecAttemptsFair == Init /\ [][NextAttempts]_vars /\ WF_vars(NextAttempts)

\* C15: a call of process_file always completes, also when an engine call
\* never returns: the attempt is abandoned once the time budget is spent and
\* the call goes on to its retry/fallback path and returns.
C15_CallCompletes == (up.pc = "route") ~> (up.pc = "store")

\* C16: process_file always hands its caller a returned result, a failure being
\* a result with success = FALSE and an error message; no exception escapes.
C16_NoExceptionEscapes ==
    (up.pc \in {"store", "done"}) => (up.result.kind = "return")

\* send_message requests of the chats, under a clock that also jumps by the
\* lifetime of a cached answer; no file is attached to any chat
NextChat ==
    \/ SendMessageAsked
    \/ Elapse(1)
    \/ Elapse(FAQ_TTL)

SpecChat == Init /\ [][NextChat]_vars

\* C17: a send_message request that starts within the 600 seconds after an
\* earlier request of the same chat, for a message equal to its own after
\* trimming and lower-casing, computed an answer returns that answer marked as
\* cached and does not call the reasoning or web-search layer.
C17_RepeatedQuestionCached ==
    [][ (reply' # reply) =>
            \A k \in DOMAIN asked :
                (reply'.key = k /\ reply'.at <= asked[k].at + FAQ_TTL) =>
                    /\ reply'.cached
                    /\ ~reply'.reasoned
                    /\ reply'.message = asked[k].answer
      ]_vars

\* process_file has returned for a well-formed CSV, force_ocr not set
C18_Case ==
    /\ up.pc \in {"store", "done"}
    /\ FileExt(up.filename) = CSV
    /\ ~up.force_ocr
    /\ up.body.readable

\* C18: processing a well-formed CSV of n data rows with force_ocr not set
\* returns success with exactly n records, metadata.rows = n and
\* enhanced_processing = FALSE, without a call of process_file_enhanced (so
\* without an engine invocation or a look into the partial-result cache).
C18_CsvRows ==
    C18_Case =>
        /\ up.result.kind = "return"
        /\ up.result.success
        /\ Len(up.result.content.records) = up.body.data_rows
        /\ up.result.rows = Some(up.body.data_rows)
        /\ ~up.result.enhanced_processing
        /\ attempts = <<>>

\* a three-row CSV with a blank line was processed while the engine is available
C18_Witness ==
    /\ C18_Case
    /\ enabled
    /\ up.body.data_rows = 3
    /\ Len(up.body.lines) = 5
    /\ up.result.rows = Some(3)

\* the cache holds an entry for the file of the current call that has not
\* passed its expiry time
C19_Unexpired ==
    LET key == PartialMakeKey(up.filename, OCR)
    IN  /\ key \in DOMAIN cache
        /\ (cache[key].expire_at = None \/ now <= cache[key].expire_at[1])

\* a call of process_file_enhanced was made in this step
C19_AttemptStep ==
    \/ AttemptReturned
    \/ (up.pc # "converting" /\ up'.pc = "converting")

\* C19: an enhanced attempt made while the cache holds an unexpired entry for
\* (file id, 'ocr') returns the cached result and performs no resource check,
\* no temporary-file write and no engine invocation; an attempt that invokes
\* the engine has looked into the cache first and found no such entry.
C19_HitShortCircuits ==
    [][ (C19_AttemptStep /\ C19_Unexpired) =>
            /\ AttemptReturned
            /\ attempts'[Len(attempts')].hit
            /\ attempts'[Len(attempts')].success
            /\ ~attempts'[Len(attempts')].engine
            /\ attempts'[Len(attempts')].error = "none"
            /\ tmp' = tmp
            /\ cache' = cache
            /\ up'.pc = "store"
            /\ up'.result.content = cache[PartialMakeKey(up.filename, OCR)].value.content
      ]_vars

\* a call was answered from an entry in the last second of its lifetime
C19_Witness ==
    /\ Len(attempts) = 1
    /\ attempts[1].hit
    /\ up.pc = "store"
    /\ PartialMakeKey(up.filename, OCR) \in DOMAIN cache
    /\ cache[PartialMakeKey(up.filename, OCR)].expire_at = Some(now)

\* thread t is between the __enter__ and the __exit__ of 'with self._lock'
InsideLock(t) == threads[t].pc \in {"locked", "check", "delete", "release"}

\* C20: under every interleaving of the cache methods of several threads, at
\* most one thread is inside a 'with self._lock' block and it is the holder of
\* the lock; a get that is about to delete the entry it saw expired finds that
\* very entry under its key, not a value stored in between; and a thread that
\* is inside an extraction, summarization or reasoning call does not hold the
\* lock.
C20_LockedOperations ==
    /\ \A t1, t2 \in LockThreads : (InsideLock(t1) /\ InsideLock(t2)) => (t1 = t2)
    /\ \A t \in LockThreads : InsideLock(t) <=> (lock = Some(t))
    /\ \A t \in LockThreads :
          (threads[t].pc = "delete") =>
              /\ threads[t].key \in DOMAIN cache
              /\ cache[threads[t].key] = threads[t].item[1]
    /\ \A t \in LockThreads : (threads[t].pc = "external") => (lock # Some(t))

\* a get is about to delete an expired entry while another thread waits for
\* the lock with a set on the same key
C20_Witness ==
    \E t1, t2 \in LockThreads :
        /\ threads[t1].pc = "delete"
        /\ threads[t2].pc = "acquire"
        /\ threads[t2].op = "set"
        /\ threads[t2].key = threads[t1].key

\* ------------------------------------------------------------ claims C21-C30
\* the resource check called with every floor and every pair of readings
NextResources ==
    \/ ResourceCheck

SpecResources == Init /\ [][NextResources]_vars

\* C21: the resource check returns false when available memory is below the
\* configured floor, returns false when memory is sufficient and the sampled CPU
\* utilisation is above 90%, returns true when both are within limits, and
\* returns true whenever a measurement it makes raises an error.
C21_ResourceCheck ==
    monitor.called =>
        LET floor_bytes == monitor.max_memory_mb * MB
            mem_failed == monitor.available = None
            mem_low == ~mem_failed /\ monitor.available[1] < floor_bytes
            cpu_failed == monitor.cpu = None
            cpu_high == ~cpu_failed /\ monitor.cpu[1] > 900
        IN  /\ mem_low => ~monitor.ret
            /\ (~mem_failed /\ ~mem_low /\ cpu_high) => ~monitor.ret
            /\ (~mem_failed /\ ~mem_low /\ ~cpu_failed /\ ~cpu_high) => monitor.ret
            /\ mem_failed => monitor.ret
            /\ (~mem_failed /\ ~mem_low /\ cpu_failed) => monitor.ret
            /\ monitor.sampled = (~mem_failed /\ ~mem_low)

\* memory stood exactly at the floor and the CPU measurement raised: the check
\* answered true
C21_Witness ==
    /\ monitor.called
    /\ monitor.available = Some(monitor.max_memory_mb * MB)
    /\ monitor.cpu = None
    /\ monitor.sampled
    /\ monitor.ret

\* process_file_content called with every kind of parsed data
NextContent ==
    \/ ProcessFileContent

SpecContent == Init /\ [][NextContent]_vars

\* C22: a call of process_file_content with a list of records (empty or not)
\* that returns has called create_chat exactly once, then add_message exactly
\* twice for the chat that came back: first a system message announcing the
\* processed upload, then a user message carrying the preview (the first five
\* records at most); it returns the id of the created chat, and the writes the
\* database accepted are stored in that order.
C22_ChatThenTwoMessages ==
    (database.ret # None /\ IsList(database.data)) =>
        LET c == database.calls
            n == Len(database.data.items)
            k == IF n < 5 THEN n ELSE 5
            id == database.ret[1]
            m == database.messages
        IN  /\ Len(c) = 3
            /\ c[1].op = "create_chat" /\ c[1].ret = Some(id)
            /\ database.chats[Len(database.chats)].id = id
            /\ Cardinality({i \in 1..Len(database.chats) : database.chats[i].id = id}) = 1
            /\ c[2].op = "add_message" /\ c[2].chat_id = id /\ c[2].role = "system"
            /\ c[2].content[1] = "File upload processed. "
            /\ c[3].op = "add_message" /\ c[3].chat_id = id /\ c[3].role = "user"
            /\ c[3].content[2].items = SubSeq(database.data.items, 1, k)
            /\ (c[2].ret # None /\ c[3].ret # None) =>
                  /\ Len(m) >= 2
                  /\ m[Len(m) - 1] = [chat_id |-> id, role |-> "system",
                                       content |-> c[2].content]
                  /\ m[Len(m)] = [chat_id |-> id, role |-> "user", content |-> c[3].content]

\* a list longer than the preview was processed and all three writes stored
C22_Witness ==
    /\ database.ret # None
    /\ IsList(database.data)
    /\ Len(database.data.items) > 5
    /\ Len(database.calls) = 3
    /\ database.calls[2].ret # None
    /\ database.calls[3].ret # None
    /\ Len(database.chats) = 2

\* C23: for dictionary data, process_file_content creates the chat with name
\* "File Upload Analysis" and industry "Data Analysis".
C23_DictChat ==
    (database.calls # <<>> /\ ~IsList(database.data)) =>
        /\ database.calls[1].op = "create_chat"
        /\ database.calls[1].content = <<"File Upload Analysis">>
        /\ database.calls[1].industry = "Data Analysis"

\* C24: the retry that follows a failed first attempt is issued with
\* force_ocr = TRUE and with the default language hint, whatever language hint
\* the caller supplied for the first attempt.
C24_RetryDefaults ==
    \A i \in 1..Len(attempts) :
        (attempts[i].site = "retry") =>
            /\ attempts[i].force_ocr
            /\ attempts[i].lang \in { Some(<<"en">>), Some(<<"eng">>) }

\* send_message building the context for stored content of every shape and
\* length, whatever becomes of the summarization call
NextContext ==
    \/ ContextBuild

SpecContext == Init /\ [][NextContext]_vars

\* C25: when the file content is longer than the 2000-character budget and the
\* LLM client raises during summarization, the context holds the first 2000
\* characters of the file content under the 'truncated' note, never the
\* 'summarized' note and never an apology text in place of the content.
C25_TruncatesWhenSummaryFails ==
    ( /\ context.built
      /\ context.file_data # None
      /\ context.file_data[1].len > 2000
      /\ context.outcome \in {"quota", "network"} ) =>
        /\ context.note = "truncated"
        /\ context.body.len = 2000
        /\ context.body.kind \in {"markdown", "json", "str"}

\* C26: during one process_file call the upload stream is read exactly once,
\* up front; the enhanced attempts and the fallback work from the buffered bytes
\* and never read or seek the stream again.
C26_StreamReadOnce ==
    /\ (up.pc \notin {"idle", "route"}) => (up.reads = 1)
    /\ up.reads <= 1
    /\ up.seeks = 0

\* process_file called directly, every step that can be taken eventually taken
\* and every engine invocation returning
SpecProcessFair == Init /\ [][NextProcess]_vars /\ WF_vars(NextProcess)

C29_OwnBytesOnly ==
    /\ (up.result.kind = "return") => (up.result.content.src = up.body.id)
    /\ \A i \in 1..Len(attempts) :
          attempts[i].hit =>
              (cache[PartialMakeKey(up.filename, OCR)].value.content.src = up.body.id)

\* a file name for every extension enhanced processing is chosen for
EligibleNames == { <<"a", ".">> \o ext : ext \in EnhancedFormats }

\* process_file called for the enhanced-eligible formats while every enhanced
\* attempt fails
NextFormats ==
    \/ ProcessFileCall(EligibleNames, {None})
    \/ ProcessFileRoute
    \/ EnhancedInitial({"error", "resources"})
    \/ EnhancedRetry({"error", "resources"})
    \/ PdfFallback
    \/ SecondChance({"error", "resources"})
    \/ BasicProcessing
    \/ ImageOcr({"error", "resources"})
    \/ ProcessFileReturn
    \/ UploadFinish

SpecFormats == Init /\ [][NextFormats]_vars

\* C30: for every enhanced-eligible extension, a call in which every enhanced
\* attempt fails still ends in a basic handler of that format; it is never
\* answered with the 'Unsupported file type' error.
C30_EligibleHasBasicHandler ==
    (up.pc \in {"store", "done"} /\ FileExt(up.filename) \in EnhancedFormats) =>
        ~(up.result.kind = "raise" /\ up.result.error = "unsupported_file_type")

\* uploads to one chat and questions on it, interleaved at every point where a
\* handler can be suspended
NextLoop ==
    \/ UploadStep
    \/ UploadAttach
    \/ SendRead({<<"1">>})
    \/ SendStore

SpecLoop == Init /\ [][NextLoop]_vars

\* C28: once a file-attach invalidation for a chat has completed, the answer
\* cache never afterwards holds an entry of that chat whose answer was computed
\* from the file data that preceded the attach, and no request that has read
\* the older file data is still on its way to store an answer.
C28_NoStaleAnswerAfterAttach ==
    \A chat \in ChatIds :
        /\ \A query_hash \in QueryHashes, version \in 0..MaxAttach :
              ( /\ QueryMakeKey(chat, query_hash) \in DOMAIN cache
                /\ cache[QueryMakeKey(chat, query_hash)].value = AnswerFrom(version) ) =>
                  (version >= files[chat].purged)
        /\ (sm.pc = "reasoning" /\ sm.chat = chat) => (sm.ctx >= files[chat].purged)

\* a second file was attached to a chat that had a cached answer, and the
\* question was then answered anew from the second file
C28_Witness ==
    /\ files[<<"1">>].purged = 2
    /\ \E query_hash \in QueryHashes :
          /\ QueryMakeKey(<<"1">>, query_hash) \in DOMAIN cache
          /\ cache[QueryMakeKey(<<"1">>, query_hash)].value = AnswerFrom(2)
    /\ up.pc = "idle"

====
